---- MODULE Spec2Model ----
(***************************************************************************)
(* Model of src/app.py, the campaign dashboard script.  One run of the     *)
(* script is a sequence of steps (pc); the session keeps the uploaded file *)
(* and the two sidebar widgets between runs.  Text is modelled character   *)
(* by character: a string is a sequence of one-character strings, so that  *)
(* strip, lower, title, splitting on the delimiter and decoding are        *)
(* computed as Python and pandas compute them.                             *)
(***************************************************************************)
EXTENDS Integers, Sequences, FiniteSets, TLC

(***************************************************************************)
(* Bounds of the model.                                                    *)
(***************************************************************************)
\* the largest number of data lines in an uploaded file
MaxRows == 2

(***************************************************************************)
(* Python str operations.                                                  *)
(***************************************************************************)
LowerCase == <<"a","b","c","d","e","f","g","h","i","j","k","l","m",
               "n","o","p","q","r","s","t","u","v","w","x","y","z","e_acute">>
UpperCase == <<"A","B","C","D","E","F","G","H","I","J","K","L","M",
               "N","O","P","Q","R","S","T","U","V","W","X","Y","Z","E_acute">>
Whitespace == {" ", "\t"}
Digits == <<"0","1","2","3","4","5","6","7","8","9">>

IsLowerCh(c) == \E i \in 1..Len(LowerCase) : LowerCase[i] = c
IsUpperCh(c) == \E i \in 1..Len(UpperCase) : UpperCase[i] = c
IsCased(c) == IsLowerCh(c) \/ IsUpperCh(c)
IsDigit(c) == \E i \in 1..Len(Digits) : Digits[i] = c

\* str.lower() / str.upper() of one character
lower_ch(c) ==
  IF IsUpperCh(c)
    THEN LowerCase[CHOOSE i \in 1..Len(UpperCase) : UpperCase[i] = c]
    ELSE c
upper_ch(c) ==
  IF IsLowerCh(c)
    THEN UpperCase[CHOOSE i \in 1..Len(LowerCase) : LowerCase[i] = c]
    ELSE c

\* str.lower()
str_lower(s) == [i \in 1..Len(s) |-> lower_ch(s[i])]

\* str.title(): a cased character is upper-cased when the character before
\* it is not cased, and lower-cased when it is
str_title(s) ==
  [i \in 1..Len(s) |->
     IF IsCased(s[i])
       THEN IF i > 1 /\ IsCased(s[i-1]) THEN lower_ch(s[i]) ELSE upper_ch(s[i])
       ELSE s[i]]

\* str.strip(): leading and trailing whitespace removed
str_strip(s) ==
  LET keep == {i \in 1..Len(s) : s[i] \notin Whitespace}
  IN  IF keep = {} THEN <<>>
      ELSE LET lo == CHOOSE i \in keep : \A j \in keep : i <= j
               hi == CHOOSE i \in keep : \A j \in keep : j <= i
           IN  SubSeq(s, lo, hi)

\* str.split(sep) on a one-character separator
RECURSIVE str_split(_, _)
str_split(s, sep) ==
  LET at == {i \in 1..Len(s) : s[i] = sep}
  IN  IF at = {} THEN <<s>>
      ELSE LET i == CHOOSE k \in at : \A j \in at : k <= j
           IN  <<SubSeq(s, 1, i-1)>> \o str_split(SubSeq(s, i+1, Len(s)), sep)

\* sep.join(parts)
RECURSIVE str_join(_, _)
str_join(parts, sep) ==
  IF Len(parts) = 0 THEN <<>>
  ELSE IF Len(parts) = 1 THEN parts[1]
  ELSE parts[1] \o <<sep>> \o str_join(Tail(parts), sep)

\* int(text) for a text of digits, and str(n) for n >= 0
RECURSIVE NumVal(_)
NumVal(s) ==
  IF Len(s) = 0 THEN 0
  ELSE 10 * NumVal(SubSeq(s, 1, Len(s)-1))
       + ((CHOOSE i \in 1..Len(Digits) : Digits[i] = s[Len(s)]) - 1)
RECURSIVE NumStr(_)
NumStr(n) ==
  IF n < 10 THEN <<Digits[n+1]>>
  ELSE NumStr(n \div 10) \o <<Digits[(n % 10) + 1]>>

(***************************************************************************)
(* pandas values.  A cell of a DataFrame is NaN, a str, an int64 or a      *)
(* float64 (only whole floats occur here); n is its number, s its text.    *)
(***************************************************************************)
NaN == [k |-> "nan", n |-> 0, s |-> <<>>]
StrCell(t) == [k |-> "str", n |-> 0, s |-> t]
IntCell(m) == [k |-> "int", n |-> m, s |-> <<>>]
FloatCell(m) == [k |-> "float", n |-> m, s |-> <<>>]

\* Series.notna() of one cell
notna(v) == v.k # "nan"

\* Series.astype(str) of one cell: str(1) is "1", str(1.0) is "1.0",
\* str(nan) is "nan"
astype_str(v) ==
  CASE v.k = "str" -> v.s
    [] v.k = "int" -> NumStr(v.n)
    [] v.k = "float" -> NumStr(v.n) \o <<".", "0">>
    [] OTHER -> <<"n", "a", "n">>

(***************************************************************************)
(* pd.read_csv with its defaults: sep=',', header on the first line,       *)
(* blank lines skipped, the default NA texts read as NaN, and each column  *)
(* typed int64 (all digits, none missing), float64 (all digits, some       *)
(* missing) or object.  A file is its lines, each a sequence of bytes; the *)
(* byte "0xE9" is not valid UTF-8 before an ASCII byte or at a line's end  *)
(* and is e-acute in latin-1.                                              *)
(***************************************************************************)
\* a reader that splits the fields on ';'
sep_semicolon == ";"
sep == ","

NaValues == {<<>>, <<"N","A">>, <<"n","a","n">>, <<"N","a","N">>,
             <<"n","u","l","l">>, <<"N","U","L","L">>, <<"N","/","A">>}

decodes_utf8(lines) ==
  \A i \in 1..Len(lines) : \A j \in 1..Len(lines[i]) : lines[i][j] # "0xE9"
decode_latin1(line) ==
  [j \in 1..Len(line) |-> IF line[j] = "0xE9" THEN "e_acute" ELSE line[j]]

IsIntText(t) == Len(t) > 0 /\ \A i \in 1..Len(t) : IsDigit(t[i])

ReadError(e) == [ok |-> FALSE, err |-> e, columns |-> <<>>, data |-> <<>>]

NotBlankLine(l) == Len(l) > 0

read_csv(lines, encoding) ==
  IF encoding = "utf-8" /\ ~decodes_utf8(lines) THEN ReadError("UnicodeDecodeError")
  ELSE
    LET text == SelectSeq([i \in 1..Len(lines) |-> decode_latin1(lines[i])],
                          NotBlankLine)
    IN  IF Len(text) = 0 THEN ReadError("EmptyDataError")
        ELSE
          LET header == str_split(text[1], sep)
              ncol == Len(header)
              recs == [i \in 1..(Len(text) - 1) |-> str_split(text[i+1], sep)]
              field(i, j) == IF j <= Len(recs[i]) THEN recs[i][j] ELSE <<>>
              isna(i, j) == field(i, j) \in NaValues
              allint(j) == \A i \in 1..Len(recs) : isna(i, j) \/ IsIntText(field(i, j))
              anyna(j) == \E i \in 1..Len(recs) : isna(i, j)
              cell(i, j) ==
                IF isna(i, j) THEN NaN
                ELSE IF ~allint(j) THEN StrCell(field(i, j))
                ELSE IF anyna(j) THEN FloatCell(NumVal(field(i, j)))
                ELSE IntCell(NumVal(field(i, j)))
          IN  IF \E i \in 1..Len(recs) : Len(recs[i]) > ncol
                THEN ReadError("ParserError")
                ELSE [ok |-> TRUE, err |-> "",
                      columns |-> header,
                      data |-> [i \in 1..Len(recs) |-> [j \in 1..ncol |-> cell(i, j)]]]

(***************************************************************************)
(* DataFrame access.  A frame is its column names and its rows; a row is   *)
(* the sequence of its cells, in column order.                             *)
(***************************************************************************)
HasCol(frame, name) == \E j \in 1..Len(frame.columns) : frame.columns[j] = name
ColIdx(frame, name) == CHOOSE j \in 1..Len(frame.columns) : frame.columns[j] = name
Col(frame, name) == [i \in 1..Len(frame.data) |-> frame.data[i][ColIdx(frame, name)]]
NoFrame == [columns |-> <<>>, data |-> <<>>]

(***************************************************************************)
(* The uploads the model draws from: a header line and up to MaxRows data  *)
(* lines from RowPool, written with ',' or ';' between the fields.         *)
(***************************************************************************)
T_campaign == <<"c", "a", "m", "p", "a", "i", "g", "n">>
T_persona == <<"p", "e", "r", "s", "o", "n", "a">>
T_resultado == <<"r", "e", "s", "u", "l", "t", "a", "d", "o">>
T_previousy == <<"p", "r", "e", "v", "i", "o", "u", "s", "y">>
T_sucesso == <<"s", "u", "c", "e", "s", "s", "o">>
T_success == <<"s", "u", "c", "c", "e", "s", "s">>
T_sim == <<"s", "i", "m">>
T_yes == <<"y", "e", "s">>
T_1 == <<"1">>
T_true == <<"t", "r", "u", "e">>
T_Todas == <<"T", "o", "d", "a", "s">>

Headers ==
  { <<T_campaign, T_persona, T_resultado, T_previousy>>,
    <<<<" ", "C", "a", "m", "p", "a", "i", "g", "n", " ">>,
      <<"P", "E", "R", "S", "O", "N", "A">>,
      <<"R", "e", "s", "u", "l", "t", "a", "d", "o">>,
      <<"P", "r", "e", "v", "i", "o", "u", "s", "Y">>>>,
    <<<<"C", "a", "m", "p", "a", "i", "g", "n", " ">>, T_persona,
      <<"R", "e", "s", "u", "l", "t", "a", "d", "o">>,
      <<"p", "r", "e", "v", "i", "o", "u", "s">> >>,
    <<<<"i", "d">>, <<"n", "a", "m", "e">>, <<"r", "e", "s", "u", "l", "t">>,
      <<"p", "r", "e", "v">>>> }

\* fields of a data line: campaign, persona, resultado, previousy
RowPool ==
  { <<<<"X">>, <<"B", "u", "y", "e", "r">>, T_sucesso, T_1>>,
    <<<<"X">>, <<"b", "u", "y", "e", "r">>, <<"f", "a", "l", "h", "a">>, <<"n", "a", "o">>>>,
    <<<<"Y">>, <<" ", " ">>, <<"S", "u", "c", "c", "e", "s", "s">>, T_1>>,
    <<<<"Y">>, <<>>, T_sucesso, <<>> >>,
    <<<<"A">>, <<"S", "a", "v", "e", "r">>, T_1, <<"3">>>>,
    <<T_Todas, <<" ", "B", "u", "y", "e", "r">>,
      <<" ", "s", "u", "c", "e", "s", "s", "o">>, <<"T", "R", "U", "E">>>>,
    <<<<"C", "a", "f", "0xE9">>, <<"s", "a", "v", "e", "r">>,
      <<"S", "U", "C", "E", "S", "S", "O">>, T_sim>> }

Delimiters == {",", ";"}

RECURSIVE Tables(_)
Tables(m) ==
  IF m = 0 THEN {<<>>}
  ELSE LET shorter == Tables(m - 1)
       IN  shorter \cup {Append(t, r) : t \in {u \in shorter : Len(u) = m - 1},
                                        r \in RowPool}

FileOf(header, table, delim) ==
  <<str_join(header, delim)>>
    \o [i \in 1..Len(table) |-> str_join(table[i], delim)]

Files ==
  {<<>>} \cup {FileOf(h, t, d) : h \in Headers, t \in Tables(MaxRows), d \in Delimiters}

(***************************************************************************)
(* The script.  pc is the position of the current run; the variables named *)
(* as in app.py are the script's variables, empty before their assignment. *)
(* uploaded_file and widgets are what the session keeps between runs.      *)
(* rendered lists what the current run has put on the page, in order.      *)
(***************************************************************************)
VARIABLES pc, uploaded_file, widgets, encoding, df, missing, df_work,
          campanhas, personas, campanha_selecionada, persona_selecionada,
          df_filtrado, total_registros, sucessos, taxa_sucesso,
          previousy_sim, taxa_previousy, personas_unicas, rendered

vars == <<pc, uploaded_file, widgets, encoding, df, missing, df_work,
          campanhas, personas, campanha_selecionada, persona_selecionada,
          df_filtrado, total_registros, sucessos, taxa_sucesso,
          previousy_sim, taxa_previousy, personas_unicas, rendered>>

session == <<uploaded_file, widgets>>
read_locals == <<encoding, df>>
sidebar_locals == <<campanhas, personas, campanha_selecionada, persona_selecionada>>
metric_locals == <<total_registros, sucessos, taxa_sucesso,
                   previousy_sim, taxa_previousy, personas_unicas>>

required_cols == <<T_campaign, T_persona, T_resultado, T_previousy>>

\* the result labels counted as a success, and the prior-contact labels
\* counted as a yes
success_labels_with_1 == {T_sucesso, T_success, T_1}
success_labels == {T_sucesso, T_success}
previousy_labels == {T_sim, T_yes, T_1, T_true}

NoUpload == [some |-> FALSE, lines |-> <<>>]
\* an entry of a selectbox: the 'Todas' put first in the list, or one of the
\* values of the column that follow it; the script is given the text alone
AllOption == [all |-> TRUE, text |-> T_Todas]
ValueOption(t) == [all |-> FALSE, text |-> t]
NoWidget == [options |-> {}, value |-> AllOption]
NoRate == <<0, 1>>

\* the script's variables before a run has assigned them
FreshLocals ==
  /\ encoding = ""
  /\ df = NoFrame
  /\ missing = <<>>
  /\ df_work = NoFrame
  /\ campanhas = {}
  /\ personas = {}
  /\ campanha_selecionada = T_Todas
  /\ persona_selecionada = T_Todas
  /\ df_filtrado = NoFrame
  /\ total_registros = 0
  /\ sucessos = 0
  /\ taxa_sucesso = NoRate
  /\ previousy_sim = 0
  /\ taxa_previousy = NoRate
  /\ personas_unicas = 0

\* no file uploaded: the script shows the upload hint and ends
Init ==
  /\ pc = "idle"
  /\ uploaded_file = NoUpload
  /\ widgets = [campanha |-> NoWidget, persona |-> NoWidget]
  /\ rendered = <<"upload_hint">>
  /\ FreshLocals

\* the except handler of the script: the error is shown and the run ends
Except ==
  /\ pc' = "error"
  /\ rendered' = Append(rendered, "error_exception")

\* the user uploads a file: the script runs from the top
Upload ==
  /\ pc = "idle"
  /\ \E f \in Files : uploaded_file' = [some |-> TRUE, lines |-> f]
  /\ pc' = "read"
  /\ rendered' = <<>>
  /\ UNCHANGED <<widgets, read_locals, missing, df_work, sidebar_locals,
                 df_filtrado, metric_locals>>

\* the file is read as utf-8 and, when that raises, again as latin-1
ReadCsv ==
  /\ pc = "read"
  /\ LET first == read_csv(uploaded_file.lines, "utf-8")
         second == read_csv(uploaded_file.lines, "latin-1")
         got == IF first.ok THEN first ELSE second
     IN  IF got.ok
           THEN /\ df' = [columns |-> got.columns, data |-> got.data]
                /\ encoding' = IF first.ok THEN "utf-8" ELSE "latin-1"
                /\ pc' = "debug"
                /\ rendered' = Append(rendered, "success")
           ELSE /\ Except
                /\ UNCHANGED read_locals
  /\ UNCHANGED <<session, missing, df_work, sidebar_locals, df_filtrado, metric_locals>>

\* the debug expander: the columns, the first rows and the dtypes of the file
DebugExpander ==
  /\ pc = "debug"
  /\ pc' = "normalize"
  /\ rendered' = Append(rendered, "debug")
  /\ UNCHANGED <<session, read_locals, missing, df_work, sidebar_locals,
                 df_filtrado, metric_locals>>

\* the column names taken as they are in the file
strip_columns_none(columns) == columns
\* df.columns.str.strip()
strip_columns(columns) == [j \in 1..Len(columns) |-> str_strip(columns[j])]

\* {col.lower(): col for col in df.columns}: a later column replaces an
\* earlier one of the same lowercased name
lower_cols(columns) ==
  [key \in {str_lower(columns[j]) : j \in 1..Len(columns)} |->
     LET at == {j \in 1..Len(columns) : str_lower(columns[j]) = key}
     IN  columns[CHOOSE j \in at : \A i \in at : i <= j]]

\* the loop over required_cols: the required names with no column
missing_cols(columns) ==
  LET df_lower_cols == lower_cols(columns)
      absent(req_col) == req_col \notin DOMAIN df_lower_cols
  IN  SelectSeq(required_cols, absent)

\* df.rename(columns={v: k for k, v in col_map.items()})
rename_columns(columns) ==
  LET df_lower_cols == lower_cols(columns)
      found == {required_cols[i] : i \in 1..Len(required_cols)} \cap DOMAIN df_lower_cols
  IN  [j \in 1..Len(columns) |->
         IF \E k \in found : df_lower_cols[k] = columns[j]
           THEN CHOOSE k \in found : df_lower_cols[k] = columns[j]
           ELSE columns[j]]

\* the same step without st.stop(): the run goes on after the error
NormalizeColumns_nostop ==
  /\ pc = "normalize"
  /\ LET columns == strip_columns(df.columns)
     IN  /\ df' = [df EXCEPT !.columns = columns]
         /\ missing' = missing_cols(columns)
         /\ df_work' = [df EXCEPT !.columns = rename_columns(columns)]
         /\ pc' = "clean"
         /\ rendered' = IF Len(missing_cols(columns)) > 0
                          THEN rendered \o <<"error_missing", "info_columns">>
                          ELSE rendered
  /\ UNCHANGED <<session, encoding, sidebar_locals, df_filtrado, metric_locals>>

\* the column names are stripped and matched to the required names; with a
\* required name missing the error is shown and st.stop() ends the run (the
\* exception st.stop() raises is not an Exception: the handler at the end of
\* the script does not catch it)
NormalizeColumns ==
  /\ pc = "normalize"
  /\ LET columns == strip_columns(df.columns)
     IN  /\ df' = [df EXCEPT !.columns = columns]
         /\ missing' = missing_cols(columns)
         /\ IF Len(missing_cols(columns)) > 0
              THEN /\ rendered' = rendered \o <<"error_missing", "info_columns">>
                   /\ pc' = "stopped"
                   /\ UNCHANGED df_work
              ELSE /\ df_work' = [df EXCEPT !.columns = rename_columns(columns)]
                   /\ pc' = "clean"
                   /\ UNCHANGED rendered
  /\ UNCHANGED <<session, encoding, sidebar_locals, df_filtrado, metric_locals>>

\* a cleaning that drops the NaN personas alone
clean_persona_notna_only(frame) ==
  LET j == ColIdx(frame, T_persona)
      notnull(row) == notna(row[j])
      kept == SelectSeq(frame.data, notnull)
  IN  [frame EXCEPT !.data =
         [i \in 1..Len(kept) |->
            [kept[i] EXCEPT ![j] = StrCell(str_title(astype_str(kept[i][j])))]]]

\* a cleaning that strips the persona instead of title-casing it
clean_persona_strip(frame) ==
  LET j == ColIdx(frame, T_persona)
      notnull(row) == notna(row[j])
      notblank(row) == str_strip(astype_str(row[j])) # <<>>
      kept == SelectSeq(SelectSeq(frame.data, notnull), notblank)
  IN  [frame EXCEPT !.data =
         [i \in 1..Len(kept) |->
            [kept[i] EXCEPT ![j] = StrCell(str_strip(astype_str(kept[i][j])))]]]

\* the rows with a persona are kept and their persona is title-cased:
\* notna(), then astype(str).str.strip() != '', then astype(str).str.title()
clean_persona(frame) ==
  LET j == ColIdx(frame, T_persona)
      notnull(row) == notna(row[j])
      notblank(row) == str_strip(astype_str(row[j])) # <<>>
      kept == SelectSeq(SelectSeq(frame.data, notnull), notblank)
  IN  [frame EXCEPT !.data =
         [i \in 1..Len(kept) |->
            [kept[i] EXCEPT ![j] = StrCell(str_title(astype_str(kept[i][j])))]]]

CleanPersona ==
  /\ pc = "clean"
  /\ IF HasCol(df_work, T_persona)
       THEN /\ df_work' = clean_persona(df_work)
            /\ pc' = "sidebar"
            /\ rendered' = Append(rendered, "info_clean")
       ELSE /\ Except
            /\ UNCHANGED df_work
  /\ UNCHANGED <<session, read_locals, missing, sidebar_locals, df_filtrado,
                 metric_locals>>

\* frame[name].dropna().astype(str).unique(), as a set
unique_str(frame, name) ==
  {astype_str(Col(frame, name)[i]) :
     i \in {k \in 1..Len(frame.data) : notna(Col(frame, name)[k])}}

\* ['Todas'] + sorted(values): the entries of a selectbox (their order after
\* the first is not modelled)
options_of(values) == {AllOption} \cup {ValueOption(t) : t \in values}

\* st.sidebar.selectbox: the entry the user chose while the options are the
\* same, else the first entry; the script gets the entry's text
chosen(widget, options) ==
  IF widget.options = options THEN widget.value ELSE AllOption
selectbox(widget, options) == chosen(widget, options).text

\* the two filters of the sidebar
Sidebar ==
  /\ pc = "sidebar"
  /\ IF HasCol(df_work, T_campaign) /\ HasCol(df_work, T_persona)
       THEN LET cs == options_of(unique_str(df_work, T_campaign))
                ps == options_of(unique_str(df_work, T_persona))
            IN  /\ campanhas' = cs
                /\ personas' = ps
                /\ campanha_selecionada' = selectbox(widgets.campanha, cs)
                /\ persona_selecionada' = selectbox(widgets.persona, ps)
                /\ widgets' =
                     [campanha |-> [options |-> cs,
                                    value |-> chosen(widgets.campanha, cs)],
                      persona |-> [options |-> ps,
                                   value |-> chosen(widgets.persona, ps)]]
                /\ pc' = "filter"
                /\ rendered' = Append(rendered, "sidebar")
       ELSE /\ Except
            /\ UNCHANGED <<widgets, sidebar_locals>>
  /\ UNCHANGED <<uploaded_file, read_locals, missing, df_work, df_filtrado,
                 metric_locals>>

\* frame[frame[name].astype(str) == value]
filter_eq(frame, name, value) ==
  LET j == ColIdx(frame, name)
      matches(row) == astype_str(row[j]) = value
  IN  [frame EXCEPT !.data = SelectSeq(frame.data, matches)]

\* a copy of df_work, narrowed by each filter that is not 'Todas'
aplicar_filtros(frame, campanha, persona) ==
  LET copy == frame
      by_campanha == IF campanha # T_Todas
                       THEN filter_eq(copy, T_campaign, campanha) ELSE copy
  IN  IF persona # T_Todas
        THEN filter_eq(by_campanha, T_persona, persona) ELSE by_campanha

\* a filter that narrows df_work itself instead of a copy of it
AplicarFiltros_inplace ==
  /\ pc = "filter"
  /\ df_filtrado' = aplicar_filtros(df_work, campanha_selecionada, persona_selecionada)
  /\ df_work' = aplicar_filtros(df_work, campanha_selecionada, persona_selecionada)
  /\ pc' = "metrics"
  /\ UNCHANGED <<session, read_locals, missing, sidebar_locals, metric_locals, rendered>>

AplicarFiltros ==
  /\ pc = "filter"
  /\ IF /\ (campanha_selecionada # T_Todas => HasCol(df_work, T_campaign))
        /\ (persona_selecionada # T_Todas => HasCol(df_work, T_persona))
       THEN /\ df_filtrado' =
                 aplicar_filtros(df_work, campanha_selecionada, persona_selecionada)
            /\ pc' = "metrics"
            /\ UNCHANGED rendered
       ELSE /\ Except
            /\ UNCHANGED df_filtrado
  /\ UNCHANGED <<session, read_locals, missing, df_work, sidebar_locals, metric_locals>>

\* the same count without str.lower()
count_isin_no_lower(frame, name, labels) ==
  Cardinality({i \in 1..Len(frame.data) : astype_str(Col(frame, name)[i]) \in labels})

\* frame[name].astype(str).str.lower().isin(labels).sum()
count_isin(frame, name, labels) ==
  Cardinality({i \in 1..Len(frame.data) :
                 str_lower(astype_str(Col(frame, name)[i])) \in labels})

\* the ratio taken the wrong way round: total / count * 100
taxa_inverted(count, total) == <<total * 100, count>>

\* count / total * 100, kept as the fraction <<count * 100, total>>
taxa(count, total) == <<count * 100, total>>

\* frame['persona'].nunique()
nunique(frame, name) ==
  Cardinality({Col(frame, name)[i] :
                 i \in {k \in 1..Len(frame.data) : notna(Col(frame, name)[k])}})

\* the four metrics of the page
Metricas ==
  /\ pc = "metrics"
  /\ LET total == Len(df_filtrado.data)
     IN  IF /\ (total > 0 => HasCol(df_filtrado, T_resultado)
                             /\ HasCol(df_filtrado, T_previousy))
            /\ HasCol(df_filtrado, T_persona)
           THEN /\ total_registros' = total
                /\ IF total > 0
                     THEN /\ sucessos' = count_isin(df_filtrado, T_resultado, success_labels)
                          /\ taxa_sucesso' =
                               taxa(count_isin(df_filtrado, T_resultado, success_labels), total)
                          /\ previousy_sim' =
                               count_isin(df_filtrado, T_previousy, previousy_labels)
                          /\ taxa_previousy' =
                               taxa(count_isin(df_filtrado, T_previousy, previousy_labels), total)
                     ELSE /\ taxa_sucesso' = NoRate
                          /\ taxa_previousy' = NoRate
                          /\ UNCHANGED <<sucessos, previousy_sim>>
                /\ personas_unicas' = nunique(df_filtrado, T_persona)
                /\ pc' = "charts"
                /\ rendered' = Append(rendered, "metrics")
           ELSE /\ Except
                /\ UNCHANGED metric_locals
  /\ UNCHANGED <<session, read_locals, missing, df_work, sidebar_locals, df_filtrado>>

\* the charts in page order, each naming the column it counts
chart_cols == <<T_campaign, T_resultado, T_persona, T_previousy>>

\* with no record the warning is shown; else the four charts, the data
\* table and the download button (a chart of an absent column raises after
\* the charts before it are on the page)
Graficos ==
  /\ pc = "charts"
  /\ IF total_registros = 0
       THEN /\ rendered' = Append(rendered, "warning")
            /\ pc' = "done"
       ELSE LET absent == {i \in 1..Len(chart_cols) : ~HasCol(df_filtrado, chart_cols[i])}
                drawn == IF absent = {} THEN Len(chart_cols)
                         ELSE (CHOOSE i \in absent : \A k \in absent : i <= k) - 1
            IN  IF absent = {}
                  THEN /\ rendered' = rendered \o [i \in 1..drawn |-> "chart"]
                                               \o <<"table", "download">>
                       /\ pc' = "done"
                  ELSE /\ rendered' = rendered \o [i \in 1..drawn |-> "chart"]
                                               \o <<"error_exception">>
                       /\ pc' = "error"
  /\ UNCHANGED <<session, read_locals, missing, df_work, sidebar_locals,
                 df_filtrado, metric_locals>>

\* a new run starts from the top of the script with its variables unset
Rerun ==
  /\ encoding' = ""
  /\ df' = NoFrame
  /\ missing' = <<>>
  /\ df_work' = NoFrame
  /\ campanhas' = {}
  /\ personas' = {}
  /\ campanha_selecionada' = T_Todas
  /\ persona_selecionada' = T_Todas
  /\ df_filtrado' = NoFrame
  /\ total_registros' = 0
  /\ sucessos' = 0
  /\ taxa_sucesso' = NoRate
  /\ previousy_sim' = 0
  /\ taxa_previousy' = NoRate
  /\ personas_unicas' = 0

\* the user picks another campaign in the sidebar: the script runs again
SelectCampanha ==
  /\ pc = "done"
  /\ \E c \in campanhas \ {widgets.campanha.value} :
       widgets' = [widgets EXCEPT !.campanha.value = c]
  /\ pc' = "read"
  /\ rendered' = <<>>
  /\ Rerun
  /\ UNCHANGED uploaded_file

\* the user picks another persona in the sidebar: the script runs again
SelectPersona ==
  /\ pc = "done"
  /\ \E p \in personas \ {widgets.persona.value} :
       widgets' = [widgets EXCEPT !.persona.value = p]
  /\ pc' = "read"
  /\ rendered' = <<>>
  /\ Rerun
  /\ UNCHANGED uploaded_file

\* the user removes the file: the script shows the upload hint again, and
\* the sidebar widgets, no longer on the page, lose their state
RemoveFile ==
  /\ pc \in {"done", "stopped", "error"}
  /\ uploaded_file' = NoUpload
  /\ widgets' = [campanha |-> NoWidget, persona |-> NoWidget]
  /\ pc' = "idle"
  /\ rendered' = <<"upload_hint">>
  /\ Rerun

Next ==
  \/ Upload
  \/ ReadCsv
  \/ DebugExpander
  \/ NormalizeColumns
  \/ CleanPersona
  \/ Sidebar
  \/ AplicarFiltros
  \/ Metricas
  \/ Graficos
  \/ SelectCampanha
  \/ SelectPersona
  \/ RemoveFile

Spec == Init /\ [][Next]_vars

(***************************************************************************)
(* What the claims are stated over.                                        *)
(***************************************************************************)
\* the run has read the file
HasRead == pc \in {"debug", "normalize", "clean", "sidebar", "filter",
                   "metrics", "charts", "done", "stopped"}
\* the run has built the cleaned table
HasCleaned == pc \in {"sidebar", "filter", "metrics", "charts", "done"}
\* the run has filtered the cleaned table
HasFiltered == pc \in {"metrics", "charts", "done"}
\* the run has computed the metrics
HasMetrics == pc \in {"charts", "done"}

\* the header line of the uploaded file, as text
HeaderLine == decode_latin1(uploaded_file.lines[1])
\* the column names as they are in the file, before any stripping
RawColumns == str_split(HeaderLine, sep)

Range(seq) == {seq[i] : i \in 1..Len(seq)}

AbsentRequired ==
  {r \in Range(required_cols) :
     ~\E j \in 1..Len(RawColumns) : str_lower(str_strip(RawColumns[j])) = r}

\* C2: when the run stops for missing columns, the names reported are
\* exactly the required names with no column equal to them after strip and
\* lower, each once and in the order of required_cols; and the run stops
\* exactly when there is such a name.
C2_MissingExact ==
  /\ pc = "stopped" =>
       /\ Range(missing) = AbsentRequired
       /\ Len(missing) = Cardinality(AbsentRequired)
       /\ missing = SelectSeq(required_cols, LAMBDA r : r \in AbsentRequired)
       /\ Len(missing) > 0
  /\ HasCleaned \/ pc = "clean" => AbsentRequired = {} /\ missing = <<>>

\* the run stopped with one name missing, the other three found under
\* headers that differ from them in case or by a trailing space
C2_Witness ==
  /\ pc = "stopped"
  /\ missing = <<T_previousy>>
  /\ \E j \in 1..Len(RawColumns) :
       RawColumns[j] # T_campaign /\ str_lower(str_strip(RawColumns[j])) = T_campaign

(***************************************************************************)
(* C3.  Nothing of the aggregate view beside a fatal error.                *)
(***************************************************************************)
ErrorOutputs == {"error_missing", "error_exception"}
AggregateOutputs == {"metrics", "chart", "table", "download"}

PersonaIdx == ColIdx(df_work, T_persona)
\* the persona of row i of the file as read
RawPersona(i) == df.data[i][PersonaIdx]
\* null, empty or whitespace only
Blank(v) == ~notna(v) \/ str_strip(astype_str(v)) = <<>>
\* the rows of the file whose persona is not blank
KeptRows == {i \in 1..Len(df.data) : ~Blank(RawPersona(i))}
\* the place of kept row i in the cleaned table
Rank(i) == Cardinality({k \in KeptRows : k <= i})

\* C4: no row of the cleaned table has a null, empty or whitespace-only
\* persona; the rows of the file with such a persona are all removed and
\* every other row is kept, in order, its other cells unchanged.
C4_NoBlankPersona ==
  HasCleaned =>
    /\ \A k \in 1..Len(df_work.data) : ~Blank(df_work.data[k][PersonaIdx])
    /\ Len(df_work.data) = Cardinality(KeptRows)
    /\ \A i \in KeptRows :
         \A j \in (1..Len(df.columns)) \ {PersonaIdx} :
           df_work.data[Rank(i)][j] = df.data[i][j]

\* a cleaned table that lost a whitespace-only persona and kept another row
C4_Witness ==
  /\ pc = "done"
  /\ Len(df_work.data) > 0
  /\ \E i \in 1..Len(df.data) :
       /\ RawPersona(i).k = "str"
       /\ Blank(RawPersona(i))
  /\ Cardinality(KeptRows) < Len(df.data)

(***************************************************************************)
(* C8.  The persona of a kept row.                                         *)
(***************************************************************************)
\* C8 as stated: the persona of a kept row is its raw persona as a string,
\* stripped and otherwise unchanged.
C8_PersonaStripped ==
  HasCleaned =>
    \A i \in KeptRows :
      df_work.data[Rank(i)][PersonaIdx] = StrCell(str_strip(astype_str(RawPersona(i))))

\* C8 amended: the persona of a kept row is its raw persona as a string,
\* title-cased by str.title() and not stripped; so two kept rows have the
\* same persona if and only if their raw personas title-case to the same
\* string, whitespace included.
C8_PersonaTitled ==
  HasCleaned =>
    /\ \A i \in KeptRows :
         df_work.data[Rank(i)][PersonaIdx] = StrCell(str_title(astype_str(RawPersona(i))))
    /\ \A i, k \in KeptRows :
         (df_work.data[Rank(i)][PersonaIdx] = df_work.data[Rank(k)][PersonaIdx])
           <=> (str_title(astype_str(RawPersona(i))) = str_title(astype_str(RawPersona(k))))

\* two kept rows whose stripped raw personas differ share one persona, and
\* a kept persona still has its leading space
C8_Witness ==
  /\ pc = "done"
  /\ \/ \E i, k \in KeptRows :
          /\ str_strip(astype_str(RawPersona(i))) # str_strip(astype_str(RawPersona(k)))
          /\ df_work.data[Rank(i)][PersonaIdx] = df_work.data[Rank(k)][PersonaIdx]
  /\ personas_unicas = 1
  /\ total_registros = 2

(***************************************************************************)
(* C5.  Which rows count as a success.                                     *)
(***************************************************************************)
IsNumber(v) == v.k \in {"int", "float"}
ResultadoOf(i) == df_filtrado.data[i][ColIdx(df_filtrado, T_resultado)]
PreviousyOf(i) == df_filtrado.data[i][ColIdx(df_filtrado, T_previousy)]

\* C5 as stated: the rows counted are those whose outcome is the number 1
\* or a label that, stripped and lowercased, is 'sucesso' or 'success'.
C5_SuccessNumericOrLabel ==
  HasMetrics =>
    sucessos = Cardinality({i \in 1..Len(df_filtrado.data) :
                 \/ IsNumber(ResultadoOf(i)) /\ ResultadoOf(i).n = 1
                 \/ /\ ResultadoOf(i).k = "str"
                    /\ str_lower(str_strip(ResultadoOf(i).s)) \in {T_sucesso, T_success}})

\* C5 amended: the rows counted are those whose outcome is a text that,
\* lowercased and not stripped, is 'sucesso' or 'success'; a number (1
\* included), a label with a space around it and a missing value are not
\* counted, and the count raises nothing: the run reaches the charts.
C5_SuccessLabelOnly ==
  /\ HasMetrics =>
       sucessos = Cardinality({i \in 1..Len(df_filtrado.data) :
                    /\ ResultadoOf(i).k = "str"
                    /\ str_lower(ResultadoOf(i).s) \in {T_sucesso, T_success}})
  /\ pc = "error" => rendered = <<"error_exception">>

\* the metrics of a table with a numeric outcome 1: no success counted
C5_Witness ==
  /\ pc = "done"
  /\ total_registros > 0
  /\ \E i \in 1..Len(df_filtrado.data) : ResultadoOf(i) = IntCell(1)
  /\ sucessos = 0

(***************************************************************************)
(* C6.  Which rows count as a prior contact.                               *)
(***************************************************************************)
\* C6 as stated: the rows counted are those whose prior-contact value is a
\* number above 0, or whose string form lowercased is 'sim', 'yes', '1' or
\* 'true'.
C6_PriorContactNumericOrLabel ==
  HasMetrics =>
    previousy_sim = Cardinality({i \in 1..Len(df_filtrado.data) :
                      \/ IsNumber(PreviousyOf(i)) /\ PreviousyOf(i).n > 0
                      \/ str_lower(astype_str(PreviousyOf(i)))
                           \in {T_sim, T_yes, T_1, T_true}})

\* C6 amended: the rows counted are those whose prior-contact value is a
\* text that lowercased is 'sim', 'yes', '1' or 'true', or the integer 1;
\* any other number (3, or 1 held as the float 1.0) and a missing value are
\* not counted, and the count raises nothing.
C6_PriorContactLabelOnly ==
  /\ HasMetrics =>
       previousy_sim = Cardinality({i \in 1..Len(df_filtrado.data) :
                         \/ /\ PreviousyOf(i).k = "str"
                            /\ str_lower(PreviousyOf(i).s) \in {T_sim, T_yes, T_1, T_true}
                         \/ PreviousyOf(i) = IntCell(1)})
  /\ pc = "error" => "sidebar" \notin Range(rendered)

\* the metrics of a table with the prior contacts 1 and 3: one counted
C6_Witness ==
  /\ pc = "done"
  /\ total_registros = 2
  /\ \E i \in 1..Len(df_filtrado.data) : PreviousyOf(i) = IntCell(3)
  /\ \E i \in 1..Len(df_filtrado.data) : PreviousyOf(i) = IntCell(1)
  /\ previousy_sim = 1

(***************************************************************************)
(* C7.  The filtered table.                                                *)
(***************************************************************************)
CampaignIdx == ColIdx(df_work, T_campaign)

\* C7: with each widget on 'no constraint' (the first entry) or on one value
\* of the column, the filtered table is exactly the rows of the cleaned
\* table whose campaign is the chosen campaign, when one is chosen, and
\* whose persona is the chosen persona, when one is chosen.
C7_FilterExact ==
  HasFiltered =>
    /\ df_filtrado.columns = df_work.columns
    /\ df_filtrado.data =
         SelectSeq(df_work.data,
                   LAMBDA row :
                     /\ (~widgets.campanha.value.all
                           => astype_str(row[CampaignIdx]) = widgets.campanha.value.text)
                     /\ (~widgets.persona.value.all
                           => astype_str(row[PersonaIdx]) = widgets.persona.value.text))

(***************************************************************************)
(* C9.  The two rates.                                                     *)
(***************************************************************************)
\* a rate <<num, den>> is the number num / den
RateInRange(r) == r[2] > 0 /\ 0 <= r[1] /\ r[1] <= 100 * r[2]
RateIsZero(r) == r[2] > 0 /\ r[1] = 0

\* C9: for every filter selection the success rate and the prior-contact
\* rate are within [0, 100], and both are 0 when the filtered table has no
\* row; the metrics are computed without a division by zero.
C9_RatesInRange ==
  HasMetrics =>
    /\ total_registros = Len(df_filtrado.data)
    /\ RateInRange(taxa_sucesso)
    /\ RateInRange(taxa_previousy)
    /\ (total_registros = 0 => RateIsZero(taxa_sucesso) /\ RateIsZero(taxa_previousy))
    /\ (total_registros > 0 =>
          /\ taxa_sucesso = <<sucessos * 100, total_registros>>
          /\ taxa_previousy = <<previousy_sim * 100, total_registros>>)

\* the filters leave no row of a cleaned table that has rows: both rates 0
C9_Witness ==
  /\ pc = "done"
  /\ total_registros = 0
  /\ Len(df_work.data) > 0
  /\ ~widgets.campanha.value.all
  /\ ~widgets.persona.value.all
  /\ RateIsZero(taxa_sucesso)
  /\ "warning" \in Range(rendered)

(***************************************************************************)
(* C10.  Filtering does not change the cleaned table.                      *)
(***************************************************************************)
\* the cleaned table of the uploaded file
CanonicalOf ==
  LET read == read_csv(uploaded_file.lines, encoding)
      columns == strip_columns(read.columns)
  IN  clean_persona([columns |-> rename_columns(columns), data |-> read.data])

\* the rows of the cleaned table that match the two texts the script got
\* from the widgets
FilteredOf ==
  [columns |-> df_work.columns,
   data |-> SelectSeq(df_work.data,
              LAMBDA row :
                /\ (campanha_selecionada # T_Todas
                      => astype_str(row[CampaignIdx]) = campanha_selecionada)
                /\ (persona_selecionada # T_Todas
                      => astype_str(row[PersonaIdx]) = persona_selecionada))]

\* C10: no step after the cleaning changes the cleaned table; a change of
\* selection keeps the uploaded file, and the run it starts builds the same
\* cleaned table again; the filtered table is a function of the cleaned
\* table and of the current selection alone.
C10_CanonicalUnchanged ==
  /\ [](HasCleaned => df_work = CanonicalOf)
  /\ [][ /\ (HasCleaned /\ HasCleaned') => df_work' = df_work
         /\ (pc = "done" /\ pc' = "read") => uploaded_file' = uploaded_file
         /\ HasFiltered' =>
              /\ df_filtrado' = FilteredOf'
              /\ campanha_selecionada' = widgets'.campanha.value.text
              /\ persona_selecionada' = widgets'.persona.value.text ]_vars

\* after changes of both selections the filtered table is a part of the
\* cleaned table, which is still the cleaned table of the file
C10_Witness ==
  /\ pc = "done"
  /\ ~widgets.campanha.value.all
  /\ ~widgets.persona.value.all
  /\ Len(df_filtrado.data) > 0
  /\ Len(df_filtrado.data) < Len(df_work.data)
  /\ df_work = CanonicalOf

====
